---- MODULE Spec2Model ----
(***************************************************************************)
(* arbitrageExactly (scripts/py-simulations/rmms/arb.py) against a CFMM    *)
(* pool.                                                                   *)
(*                                                                         *)
(* Numbers.  The program computes in floats; the model computes in         *)
(* integers on a fixed-point grid.  Risky amounts: the literal 1 (a full   *)
(* risky reserve) is One grid units and EPSILON = 1e-8 is EPSILON grid     *)
(* units, so that amounts between EPSILON and 2*EPSILON exist.  Prices are *)
(* integers (riskless per risky), riskless amounts are risky amounts times *)
(* prices, and the tolerance literal 1e-8 of the price comparisons is the  *)
(* same EPSILON.  The fee is a multiple of 1/FeeDen, so gamma = 1 - fee is *)
(* GammaNum/FeeDen and every division by gamma below is exact.             *)
(*                                                                         *)
(* The pool class (the AMM object handed to arbitrageExactly) is not part  *)
(* of the sources; its pricing curve is modelled from the interface the    *)
(* specification gives: pure marginal-price and virtual-swap functions of  *)
(* the current state and the trade size, and two mutating swaps.           *)
(***************************************************************************)
EXTENDS Integers, Sequences, FiniteSets, TLC

\* arb.py:9  EPSILON = 1e-8, in grid units
EPSILON == 2
\* the literal 1 of `1 - R1` (arb.py:49, 65, 68): a full risky reserve, in grid units
One == 8
\* the literal 1 of `gamma = 1 - pool.fee` (arb.py:24), in fee units
FeeDen == 2

\* bounds of the model
MaxPrice == 20
MaxInvariant == 2
MaxUpdates == 1

Fees == 0 .. (FeeDen - 1)
Prices == 1 .. MaxPrice
Invariants == {-MaxInvariant, 0, MaxInvariant}

Sign(x) == IF x > 0 THEN 1 ELSE IF x < 0 THEN -1 ELSE 0

Max(a, b) == IF a >= b THEN a ELSE b

Min(a, b) == IF a <= b THEN a ELSE b

(***************************************************************************)
(* The pool (modelled from the specification's Pool State View).           *)
(* The curve: Spot(x) is the price of the next risky unit sold into a pool *)
(* holding x risky, decreasing in x; RisklessOnCurve(x) is the riskless    *)
(* reserve the curve prescribes at x, the sum of Spot over x .. One-1, so  *)
(* it falls from K at x = 0 to 0 at x = One.  The invariant is the offset  *)
(* of the riskless reserve from the curve.  The price moves by at most     *)
(* EPSILON per grid unit of risky: the root search resolves a crossing     *)
(* more finely than the tolerance of the direction tests.  A swap adds the *)
(* whole amount in to the in-side reserve, moves along the curve by the    *)
(* amount in after the fee, and leaves the fee in the invariant.  The      *)
(* volatility and the time to maturity (arb.py:29-30) are read by          *)
(* arbitrageExactly and never used; they are fixed in the curve.           *)
(***************************************************************************)
Spot(x) == 2 * (One - x)

RisklessOnCurve(x) == (One - x) * (One - x + 1)

StrikeK == RisklessOnCurve(0)

\* the risky reserve at on-curve riskless y: the units not yet fully paid for stay
RiskyTable ==
    [y \in 0 .. StrikeK |->
        CHOOSE x \in 0 .. One :
            /\ RisklessOnCurve(x) <= y
            /\ \A z \in 0 .. One : RisklessOnCurve(z) <= y => x <= z]

RiskyGivenRiskless(y) == IF y >= StrikeK THEN 0 ELSE RiskyTable[y]

GammaNum(pool) == FeeDen - pool.fee

OnCurve(pool) == pool.reserves_riskless - pool.invariant

\* the effective amount in, after the fee
Effective(pool, amount_in) == (GammaNum(pool) * amount_in) \div FeeDen

\* mutating: amount_in of risky into the pool, riskless out
SwapRiskyInAmountOut(pool, amount_in) ==
    Effective(pool, OnCurve(pool) - RisklessOnCurve(pool.reserves_risky + amount_in))

swapAmountInRisky(pool, amount_in) ==
    LET out == SwapRiskyInAmountOut(pool, amount_in)
        r1  == pool.reserves_risky + amount_in
        r2  == pool.reserves_riskless - out
    IN  [pool EXCEPT !.reserves_risky = r1,
                     !.reserves_riskless = r2,
                     !.invariant = r2 - RisklessOnCurve(r1)]

\* riskless in: is the trade within what the curve can absorb
RisklessInDomain(pool, amount_in) ==
    OnCurve(pool) + Effective(pool, amount_in) <= pool.K

SwapRisklessInAmountOut(pool, amount_in) ==
    pool.reserves_risky
      - RiskyGivenRiskless(OnCurve(pool) + Effective(pool, amount_in))

swapAmountInRiskless(pool, amount_in) ==
    LET y  == OnCurve(pool) + Effective(pool, amount_in)
        r2 == pool.reserves_riskless + amount_in
    IN  [pool EXCEPT !.reserves_risky = RiskyGivenRiskless(y),
                     !.reserves_riskless = r2,
                     !.invariant = r2 - y]

\* read-only previews of the two swaps
virtualSwapAmountInRisky(pool, amount_in) == SwapRiskyInAmountOut(pool, amount_in)

virtualSwapAmountInRiskless(pool, amount_in) == SwapRisklessInAmountOut(pool, amount_in)

\* the marginal prices at zero trade size, from the reserves
SellPriceAt(pool) == (GammaNum(pool) * Spot(pool.reserves_risky)) \div FeeDen

BuyPriceAt(pool) == (Spot(pool.reserves_risky - 1) * FeeDen) \div GammaNum(pool)

\* the marginal price after a candidate trade: the zero-size price of the post-trade state
getMarginalPriceSwapRiskyIn(pool, amount_in) ==
    SellPriceAt(swapAmountInRisky(pool, amount_in))

getMarginalPriceSwapRisklessIn(pool, amount_in) ==
    BuyPriceAt(swapAmountInRiskless(pool, amount_in))

(***************************************************************************)
(* arbitrageExactly (arb.py:12-91).                                        *)
(***************************************************************************)
\* one interaction of a call, in the order the code performs them
Ev(op, amount) == [op |-> op, amount |-> amount]

\* arb.py:45, 82, 83: (K + k - R2) / gamma
RisklessCapacity(pool) ==
    ((pool.K + pool.invariant - pool.reserves_riskless) * FeeDen) \div GammaNum(pool)

\* arb.py:65, 66: 1 - R1
RiskyCapacity(pool) == One - pool.reserves_risky

\* the guard without its third test (risky reserve almost full)
BoundaryGuardNoFull(pool) ==
    \/ pool.reserves_risky < EPSILON
    \/ pool.reserves_riskless < EPSILON \/ RisklessCapacity(pool) < EPSILON
    \/ pool.K - pool.reserves_riskless < EPSILON

\* arb.py:41-54: the four degenerate conditions
BoundaryGuard(pool) ==
    \/ pool.reserves_risky < EPSILON
    \/ pool.reserves_riskless < EPSILON \/ RisklessCapacity(pool) < EPSILON
    \/ One - pool.reserves_risky < EPSILON
    \/ pool.K - pool.reserves_riskless < EPSILON

\* the first direction test without its tolerance
SellRiskyAboveMarketNoTolerance(price_sell_risky, m) == price_sell_risky > m

\* arb.py:59
SellRiskyAboveMarket(price_sell_risky, m) == price_sell_risky > m + EPSILON

\* arb.py:77
BuyRiskyBelowMarket(price_buy_risky, m) == price_buy_risky < m - EPSILON

\* arb.py:61-62
FuncRiskyIn(pool, m, amount_in) == getMarginalPriceSwapRiskyIn(pool, amount_in) - m

\* arb.py:78-79
FuncRisklessIn(pool, m, amount_in) == m - getMarginalPriceSwapRisklessIn(pool, amount_in)

\* arb.py:65, 82: np.sign(func(a)) != np.sign(func(b))
Bracketed(fa, fb) == Sign(fa) # Sign(fb)

\* the fallback clamped to the bracket's upper endpoint
FallbackRiskyInShort(pool) == One - pool.reserves_risky - EPSILON

\* arb.py:68
FallbackRiskyIn(pool) == One - pool.reserves_risky

\* arb.py:85
FallbackRisklessIn(pool) == pool.K - pool.reserves_riskless

\* the gate letting a zero profit through
ProfitGateNonStrict(profit) == profit >= 0

\* arb.py:73, 90
ProfitGate(profit) == profit > 0

(***************************************************************************)
(* scipy.optimize.brentq(func, a, b), called with func(a) and func(b) of   *)
(* different sign: a point between a and b (in either order) where func is *)
(* zero or changes sign to the next grid point.  Which of the two sides of *)
(* a crossing is returned is the solver's choice.                          *)
(***************************************************************************)
IsRoot(F, t, a, b) ==
    \/ F[t] = 0
    \/ t < Max(a, b) /\ Sign(F[t]) * Sign(F[t + 1]) = -1
    \/ t > Min(a, b) /\ Sign(F[t]) * Sign(F[t - 1]) = -1

BrentqRiskyIn(pool, m, a, b) ==
    LET F == [t \in Min(a, b) .. Max(a, b) |-> FuncRiskyIn(pool, m, t)]
    IN  {t \in Min(a, b) .. Max(a, b) : IsRoot(F, t, a, b)}

BrentqRisklessIn(pool, m, a, b) ==
    LET F == [t \in Min(a, b) .. Max(a, b) |-> FuncRisklessIn(pool, m, t)]
    IN  {t \in Min(a, b) .. Max(a, b) : IsRoot(F, t, a, b)}

\* what a call returns to the model: the pool after it and what it did
Outcome(pool, branch, log, t) ==
    [pool |-> pool, branch |-> branch, log |-> log,
     bracketed |-> t.bracketed, lo |-> t.lo, hi |-> t.hi,
     optimal_trade |-> t.optimal_trade, amount_out |-> t.amount_out,
     nan |-> t.nan, profit |-> t.profit, executed |-> t.executed]

NoTrade ==
    [bracketed |-> FALSE, lo |-> 0, hi |-> 0, optimal_trade |-> 0,
     amount_out |-> 0, nan |-> FALSE, profit |-> 0, executed |-> FALSE]

\* the amount out taken from the mutating swap instead of the preview
GateRiskyInMutating(pool, m, optimal_trade) ==
    LET amount_out == SwapRiskyInAmountOut(pool, optimal_trade)
        profit     == amount_out - optimal_trade * m
    IN  [pool |-> swapAmountInRisky(pool, optimal_trade),
         log |-> << Ev("swapAmountInRisky", optimal_trade) >>,
         amount_out |-> amount_out, nan |-> FALSE, profit |-> profit,
         executed |-> TRUE]

\* arb.py:70-74
GateRiskyIn(pool, m, optimal_trade) ==
    LET amount_out == virtualSwapAmountInRisky(pool, optimal_trade)
        profit     == amount_out - optimal_trade * m
    IN  IF ProfitGate(profit)
        THEN [pool |-> swapAmountInRisky(pool, optimal_trade),
              log |-> << Ev("virtualSwapAmountInRisky", optimal_trade),
                         Ev("swapAmountInRisky", optimal_trade) >>,
              amount_out |-> amount_out, nan |-> FALSE, profit |-> profit,
              executed |-> TRUE]
        ELSE [pool |-> pool,
              log |-> << Ev("virtualSwapAmountInRisky", optimal_trade) >>,
              amount_out |-> amount_out, nan |-> FALSE, profit |-> profit,
              executed |-> FALSE]

\* arb.py:87-91.  A preview beyond what the curve can absorb yields no number
\* (NaN), and `profit > 0` is then false.
GateRisklessIn(pool, m, optimal_trade) ==
    LET nan        == ~RisklessInDomain(pool, optimal_trade)
        amount_out == IF nan THEN 0 ELSE virtualSwapAmountInRiskless(pool, optimal_trade)
        profit     == IF nan THEN 0 ELSE amount_out * m - optimal_trade
    IN  IF ~nan /\ ProfitGate(profit)
        THEN [pool |-> swapAmountInRiskless(pool, optimal_trade),
              log |-> << Ev("virtualSwapAmountInRiskless", optimal_trade),
                         Ev("swapAmountInRiskless", optimal_trade) >>,
              amount_out |-> amount_out, nan |-> nan, profit |-> profit,
              executed |-> TRUE]
        ELSE [pool |-> pool,
              log |-> << Ev("virtualSwapAmountInRiskless", optimal_trade) >>,
              amount_out |-> amount_out, nan |-> nan, profit |-> profit,
              executed |-> FALSE]

\* arb.py:60-74: the risky-in branch; root is what brentq returns when it is called
RiskyInBranch(pool, m, root) ==
    LET lo == EPSILON
        hi == RiskyCapacity(pool) - EPSILON
        bracketed == Bracketed(FuncRiskyIn(pool, m, lo), FuncRiskyIn(pool, m, hi))
        optimal_trade == IF bracketed THEN root ELSE FallbackRiskyIn(pool)
        sized == << Ev("getMarginalPriceSwapRiskyIn", lo),
                    Ev("getMarginalPriceSwapRiskyIn", hi) >>
                 \o (IF bracketed THEN << Ev("brentq", root) >> ELSE << >>)
        g == GateRiskyIn(pool, m, optimal_trade)
    IN  IF optimal_trade >= 0
        THEN [pool |-> g.pool, log |-> sized \o g.log,
              t |-> [bracketed |-> bracketed, lo |-> lo, hi |-> hi,
                     optimal_trade |-> optimal_trade, amount_out |-> g.amount_out,
                     nan |-> g.nan, profit |-> g.profit, executed |-> g.executed]]
        ELSE [pool |-> pool, log |-> sized \o << Ev("AssertionError", optimal_trade) >>,
              t |-> [NoTrade EXCEPT !.bracketed = bracketed, !.lo = lo, !.hi = hi,
                                    !.optimal_trade = optimal_trade]]

\* arb.py:78-91: the riskless-in branch
RisklessInBranch(pool, m, root) ==
    LET lo == EPSILON
        hi == RisklessCapacity(pool) - EPSILON
        bracketed == Bracketed(FuncRisklessIn(pool, m, lo), FuncRisklessIn(pool, m, hi))
        optimal_trade == IF bracketed THEN root ELSE FallbackRisklessIn(pool)
        sized == << Ev("getMarginalPriceSwapRisklessIn", lo),
                    Ev("getMarginalPriceSwapRisklessIn", hi) >>
                 \o (IF bracketed THEN << Ev("brentq", root) >> ELSE << >>)
        g == GateRisklessIn(pool, m, optimal_trade)
    IN  IF optimal_trade >= 0
        THEN [pool |-> g.pool, log |-> sized \o g.log,
              t |-> [bracketed |-> bracketed, lo |-> lo, hi |-> hi,
                     optimal_trade |-> optimal_trade, amount_out |-> g.amount_out,
                     nan |-> g.nan, profit |-> g.profit, executed |-> g.executed]]
        ELSE [pool |-> pool, log |-> sized \o << Ev("AssertionError", optimal_trade) >>,
              t |-> [NoTrade EXCEPT !.bracketed = bracketed, !.lo = lo, !.hi = hi,
                                    !.optimal_trade = optimal_trade]]

\* arb.py:32-39: both zero-size prices are taken before anything is tested
PricesAtZero ==
    << Ev("getMarginalPriceSwapRiskyIn", 0), Ev("getMarginalPriceSwapRisklessIn", 0) >>

\* arb.py:12-91
arbitrageExactly(market_price, pool, root) ==
    LET price_sell_risky == getMarginalPriceSwapRiskyIn(pool, 0)
        price_buy_risky  == getMarginalPriceSwapRisklessIn(pool, 0)
        m == market_price
        entry == PricesAtZero \o << Ev("guard", 0) >>
    IN  IF BoundaryGuard(pool)
        THEN Outcome(pool, "degenerate", entry, NoTrade)
        ELSE IF SellRiskyAboveMarket(price_sell_risky, m)
        THEN LET b == RiskyInBranch(pool, m, root)
             IN  Outcome(b.pool, "risky_in", entry \o b.log, b.t)
        ELSE IF BuyRiskyBelowMarket(price_buy_risky, m)
        THEN LET b == RisklessInBranch(pool, m, root)
             IN  Outcome(b.pool, "riskless_in", entry \o b.log, b.t)
        ELSE Outcome(pool, "aligned", entry, NoTrade)

\* the values brentq may return in a call: {0} stands for "brentq is not called"
BrentqChoices(market_price, pool) ==
    LET m == market_price
    IN  IF BoundaryGuard(pool) THEN {0}
        ELSE IF SellRiskyAboveMarket(getMarginalPriceSwapRiskyIn(pool, 0), m)
        THEN LET lo == EPSILON
                 hi == RiskyCapacity(pool) - EPSILON
             IN  IF Bracketed(FuncRiskyIn(pool, m, lo), FuncRiskyIn(pool, m, hi))
                 THEN BrentqRiskyIn(pool, m, lo, hi) ELSE {0}
        ELSE IF BuyRiskyBelowMarket(getMarginalPriceSwapRisklessIn(pool, 0), m)
        THEN LET lo == EPSILON
                 hi == RisklessCapacity(pool) - EPSILON
             IN  IF Bracketed(FuncRisklessIn(pool, m, lo), FuncRisklessIn(pool, m, hi))
                 THEN BrentqRisklessIn(pool, m, lo, hi) ELSE {0}
        ELSE {0}

(***************************************************************************)
(* The state: the pool, the reference price the caller arbitrages against, *)
(* and the calls made at that price since it last changed (the last two).  *)
(***************************************************************************)
VARIABLES pool, market_price, calls, updates

arbVars == << pool, market_price, calls, updates >>

\* iterative_solution (scripts/py-simulations/strike_delta.py:20-44): its arguments, its
\* locals, where it stands, what it returned, and the strikes it has evaluated so far
VARIABLES args, strike, prev_delta, curr_step, pc, returned, visited

strikeVars == << args, strike, prev_delta, curr_step, pc, returned, visited >>

vars == << arbVars, strikeVars >>

\* no call of iterative_solution is in progress
StrikeIdle ==
    /\ args = << >>
    /\ strike = 0
    /\ prev_delta = 0
    /\ curr_step = 0
    /\ pc = "idle"
    /\ returned = << >>
    /\ visited = {}

\* a pool on its curve, with any invariant that leaves the riskless reserve nonnegative
Pools ==
    {[reserves_risky |-> r1, reserves_riskless |-> RisklessOnCurve(r1) + k,
      invariant |-> k, K |-> StrikeK, fee |-> f] :
        r1 \in 0 .. One, k \in Invariants, f \in Fees}

Init ==
    /\ pool \in {p \in Pools : p.reserves_riskless >= 0}
    /\ market_price \in Prices
    /\ calls = << >>
    /\ updates = 0
    /\ StrikeIdle

\* one call arbitrageExactly(market_price, pool)
Arbitrage ==
    \E root \in BrentqChoices(market_price, pool) :
        LET r == arbitrageExactly(market_price, pool, root)
            c == [entry |-> pool, m |-> market_price] @@ r
        IN  /\ pool' = r.pool
            /\ calls' = IF Len(calls) = 2 THEN << calls[2], c >> ELSE Append(calls, c)
            /\ UNCHANGED << market_price, updates >>
            /\ UNCHANGED strikeVars

\* the reference price moves by one tick between calls
PriceUpdate ==
    /\ calls # << >>
    /\ updates < MaxUpdates
    /\ \E m \in {market_price - 1, market_price + 1} \cap Prices : market_price' = m
    /\ calls' = << >>
    /\ updates' = updates + 1
    /\ UNCHANGED pool
    /\ UNCHANGED strikeVars

Next == Arbitrage \/ PriceUpdate

Spec == Init /\ [][Next]_vars

(***************************************************************************)
(* The properties.  Each is stated over the calls recorded in `calls`: a   *)
(* call c has the pool at entry (c.entry), the pool at return (c.pool),    *)
(* the reference price (c.m) and the interactions in order (c.log).        *)
(***************************************************************************)
Recorded == {calls[i] : i \in 1 .. Len(calls)}

PriceOps == {"getMarginalPriceSwapRiskyIn", "getMarginalPriceSwapRisklessIn"}

VirtualOps == {"virtualSwapAmountInRisky", "virtualSwapAmountInRiskless"}

SwapOps == {"swapAmountInRisky", "swapAmountInRiskless"}

RiskyOps == {"getMarginalPriceSwapRiskyIn", "virtualSwapAmountInRisky", "swapAmountInRisky"}

RisklessOps ==
    {"getMarginalPriceSwapRisklessIn", "virtualSwapAmountInRiskless", "swapAmountInRiskless"}

GuardIndex(c) == CHOOSE i \in 1 .. Len(c.log) : c.log[i].op = "guard"

\* what the call did after it tested the guard
AfterGuard(c) == SubSeq(c.log, GuardIndex(c) + 1, Len(c.log))

Ops(log) == {log[i].op : i \in 1 .. Len(log)}

Swapped(c) == Ops(c.log) \cap SwapOps # {}

\* the four degenerate conditions, as the claims list them
Degenerate(p) ==
    \/ p.reserves_risky < EPSILON
    \/ p.reserves_riskless < EPSILON
    \/ (p.K + p.invariant - p.reserves_riskless) * FeeDen < EPSILON * (FeeDen - p.fee)
    \/ One - p.reserves_risky < EPSILON
    \/ p.K - p.reserves_riskless < EPSILON

\* C1: a call entered in a degenerate state is a no-op: after the guard it evaluates
\* nothing, previews nothing and swaps nothing, and reserves and invariant are unchanged
C1_DegenerateIsNoOp ==
    \A c \in Recorded :
        Degenerate(c.entry) =>
            /\ AfterGuard(c) = << >>
            /\ Ops(c.log) \cap (VirtualOps \cup SwapOps \cup {"brentq"}) = {}
            /\ c.pool = c.entry

\* the scenario of the specification: the risky reserve within EPSILON of full
C1_Witness ==
    \E c \in Recorded :
        /\ One - c.entry.reserves_risky < EPSILON
        /\ c.entry.reserves_risky >= EPSILON
        /\ c.entry.reserves_riskless >= EPSILON
        /\ c.pool = c.entry

ActedRisky(c) == Ops(AfterGuard(c)) \cap RiskyOps # {}

ActedRiskless(c) == Ops(AfterGuard(c)) \cap RisklessOps # {}

SellAtZero(c) == getMarginalPriceSwapRiskyIn(c.entry, 0)

BuyAtZero(c) == getMarginalPriceSwapRisklessIn(c.entry, 0)

\* C2: past the guard the direction is decided in order from the two zero-size prices:
\* risky-in iff sell > m + 1e-8; otherwise riskless-in iff buy < m - 1e-8; otherwise the
\* call is a no-op that leaves the pool unchanged; never both directions in one call
C2_DirectionRule ==
    \A c \in Recorded :
        ~Degenerate(c.entry) =>
            /\ ActedRisky(c) <=> SellAtZero(c) > c.m + EPSILON
            /\ ~(SellAtZero(c) > c.m + EPSILON) =>
                   (ActedRiskless(c) <=> BuyAtZero(c) < c.m - EPSILON)
            /\ (~(SellAtZero(c) > c.m + EPSILON) /\ ~(BuyAtZero(c) < c.m - EPSILON)) =>
                   (AfterGuard(c) = << >> /\ c.pool = c.entry)
            /\ ~(ActedRisky(c) /\ ActedRiskless(c))

\* both prices within the tolerance of m, neither equal to it: the aligned no-op
C2_Witness ==
    \E c \in Recorded :
        /\ ~Degenerate(c.entry)
        /\ SellAtZero(c) > c.m /\ SellAtZero(c) <= c.m + EPSILON
        /\ BuyAtZero(c) >= c.m - EPSILON
        /\ AfterGuard(c) = << >>
        /\ c.pool = c.entry

\* the trade a call sized, and the profit the claim computes from the read-only preview
ClaimProfit(c) ==
    IF ActedRisky(c)
    THEN virtualSwapAmountInRisky(c.entry, c.optimal_trade) - c.optimal_trade * c.m
    ELSE virtualSwapAmountInRiskless(c.entry, c.optimal_trade) * c.m - c.optimal_trade

\* C3: the mutating swap is invoked only if the profit of the preview at t* is strictly
\* positive; with profit <= 0 (0 included) the call leaves the pool unchanged
C3_SwapOnlyIfProfit ==
    \A c \in Recorded :
        (ActedRisky(c) \/ ActedRiskless(c)) =>
            /\ Swapped(c) => (~c.nan /\ ClaimProfit(c) > 0)
            /\ (~c.nan /\ ClaimProfit(c) <= 0) => (~Swapped(c) /\ c.pool = c.entry)

\* a direction was chosen, the preview's profit is exactly 0, nothing is swapped
C3_Witness ==
    \E c \in Recorded :
        /\ ActedRisky(c) \/ ActedRiskless(c)
        /\ ~c.nan
        /\ c.optimal_trade > 0
        /\ ClaimProfit(c) = 0
        /\ ~Swapped(c)
        /\ c.pool = c.entry

\* the capacity bound of the chosen direction, as the claims give it
ClaimCapacity(c) ==
    IF ActedRisky(c)
    THEN One - c.entry.reserves_risky
    ELSE ((c.entry.K + c.entry.invariant - c.entry.reserves_riskless) * FeeDen)
             \div (FeeDen - c.entry.fee)

ClaimF(c, t) ==
    IF ActedRisky(c)
    THEN getMarginalPriceSwapRiskyIn(c.entry, t) - c.m
    ELSE c.m - getMarginalPriceSwapRisklessIn(c.entry, t)

SameSign(c) == Sign(ClaimF(c, EPSILON)) = Sign(ClaimF(c, ClaimCapacity(c) - EPSILON))

\* C4: when f(eps) and f(upper_bound - eps) have the same sign, t* is the exact capacity
\* bound of the chosen direction: 1 - R1 for risky-in, (K + invariant - R2)/(1 - fee) for
\* riskless-in
C4_FallbackIsCapacity ==
    \A c \in Recorded :
        ((ActedRisky(c) \/ ActedRiskless(c)) /\ SameSign(c)) =>
            c.optimal_trade = ClaimCapacity(c)

\* C5: whenever a direction is chosen, 0 <= t* <= capacity of that direction
C5_TradeWithinCapacity ==
    \A c \in Recorded :
        (ActedRisky(c) \/ ActedRiskless(c)) =>
            (0 <= c.optimal_trade /\ c.optimal_trade <= ClaimCapacity(c))

\* C6 as claimed: a call that executes a swap from a state passing the guard leaves a
\* state that still passes the guard
C6_StillPassesGuard ==
    \A c \in Recorded :
        (~Degenerate(c.entry) /\ Swapped(c)) => ~Degenerate(c.pool)

\* C6 as amended: an executed risky-in trade adds t* to the risky reserve and never
\* takes it past 1; a trade sized by the same-sign fallback puts the in-side reserve
\* exactly on its bound (risky reserve 1, riskless reserve K), a state the guard rejects
C6_LandsOnBound ==
    \A c \in Recorded :
        (~Degenerate(c.entry) /\ Swapped(c)) =>
            /\ ActedRisky(c) =>
                   /\ c.pool.reserves_risky = c.entry.reserves_risky + c.optimal_trade
                   /\ c.pool.reserves_risky > c.entry.reserves_risky
                   /\ c.pool.reserves_risky <= One
            /\ (ActedRisky(c) /\ SameSign(c)) =>
                   (c.pool.reserves_risky = One /\ Degenerate(c.pool))
            /\ (ActedRiskless(c) /\ SameSign(c)) =>
                   (c.pool.reserves_riskless = c.entry.K /\ Degenerate(c.pool))

\* a fallback trade was executed from a state passing the guard
C6_Witness ==
    \E c \in Recorded :
        /\ ~Degenerate(c.entry)
        /\ Swapped(c)
        /\ ActedRisky(c)
        /\ SameSign(c)
        /\ c.pool.reserves_risky = One

SwapAt(c) == {i \in 1 .. Len(c.log) : c.log[i].op \in SwapOps}

VirtualOf(op) ==
    IF op = "swapAmountInRisky" THEN "virtualSwapAmountInRisky"
    ELSE "virtualSwapAmountInRiskless"

\* the pool a swap event yields when it acts on pool p
Applied(p, e) ==
    IF e.op = "swapAmountInRisky" THEN swapAmountInRisky(p, e.amount)
    ELSE swapAmountInRiskless(p, e.amount)

\* C8: every call is guard, then nothing or: the two bracket evaluations of one direction,
\* the root search, one preview, and at most one mutating swap; the swap is the last
\* interaction, has the direction and the amount t* of the preview just before it, and
\* acts on the pool as it was at entry
C8_CallShape ==
    \A c \in Recorded :
        LET a == AfterGuard(c)
            n == Len(c.log)
        IN  /\ Cardinality(SwapAt(c)) <= 1
            /\ \A i \in SwapAt(c) :
                   /\ i = n
                   /\ i > 1
                   /\ c.log[i - 1].op = VirtualOf(c.log[i].op)
                   /\ c.log[i - 1].amount = c.log[i].amount
                   /\ c.log[i].amount = c.optimal_trade
                   /\ c.pool = Applied(c.entry, c.log[i])
            /\ SwapAt(c) = {} => c.pool = c.entry
            /\ Cardinality({i \in 1 .. n : c.log[i].op = "guard"}) = 1
            /\ a # << >> =>
                   /\ Len(a) >= 3
                   /\ a[1].op \in PriceOps /\ a[2].op = a[1].op
                   /\ \A i \in 3 .. Len(a) :
                          /\ a[i].op \notin PriceOps
                          /\ a[i].op = "brentq" => i = 3
                          /\ a[i].op \in VirtualOps =>
                                 (i = 3 \/ (i = 4 /\ a[3].op = "brentq"))
                   /\ Cardinality({i \in 1 .. Len(a) : a[i].op \in VirtualOps}) <= 1

\* a call that went all the way: bracket, root search, preview, swap
C8_Witness ==
    \E c \in Recorded :
        /\ Len(AfterGuard(c)) = 5
        /\ AfterGuard(c)[3].op = "brentq"
        /\ AfterGuard(c)[5].op \in SwapOps
        /\ c.pool # c.entry

\* C9: the guard is evaluated first; the marginal-price functions are queried at size 0
\* only when the guard is clear, and not at all in a degenerate state
C9_GuardBeforePrices ==
    \A c \in Recorded :
        /\ \A i \in 1 .. Len(c.log) : c.log[i].op \in PriceOps => GuardIndex(c) < i
        /\ Degenerate(c.entry) => Ops(c.log) \cap PriceOps = {}

\* C10: whenever a direction is chosen, f is evaluated at EPSILON and at
\* upper_bound - EPSILON with 0 < EPSILON < upper_bound - EPSILON
C10_BracketWellFormed ==
    \A c \in Recorded :
        (ActedRisky(c) \/ ActedRiskless(c)) =>
            /\ AfterGuard(c)[1].amount = EPSILON
            /\ AfterGuard(c)[2].amount = ClaimCapacity(c) - EPSILON
            /\ 0 < AfterGuard(c)[1].amount
            /\ 0 < AfterGuard(c)[2].amount
            /\ AfterGuard(c)[1].amount < AfterGuard(c)[2].amount

(***************************************************************************)
(* iterative_solution (scripts/py-simulations/strike_delta.py:20-57), the  *)
(* strike search it is compared against, and get_black_scholes_delta       *)
(* (strike_delta.py:60-64).                                                *)
(*                                                                         *)
(* Numbers.  A delta is an integer number of 1/DeltaOne, so the literal 1  *)
(* of `prev_delta = 1` is DeltaOne.  Spot, strike and step are integers.   *)
(* sigma, the logarithm and d1 are integer numbers of 1/Fix; tau is an     *)
(* integer number of 1/TauDen years.  np.log and norm.cdf are tables of    *)
(* the two functions rounded to the grid: both are monotone, the cdf is    *)
(* 1/2 at 0 and, as in floating point, exactly 0 or 1 far enough out;      *)
(* the divisions round down.  sigma and tau are positive, as               *)
(* make_simulation draws them (strike_delta.py:77-78).                     *)
(***************************************************************************)
\* strike_delta.py:26  the literal 1 of `prev_delta = 1`, in delta units
DeltaOne == 32
\* the grid of sigma, of np.log and of d1 (strike_delta.py:61-62): units per 1.0
Fix == 16
\* the grid of tau (strike_delta.py:61): units per year
TauDen == 4

\* bounds of the strike search
MaxSpot == 13
\* strike_delta.py:20  max_steps=1e6, cut down
max_steps == 6

Deltas == 0 .. DeltaOne
Spots == 8 .. MaxSpot
Steps == {2, 3}
Sigmas == {Fix \div 4, Fix \div 2, Fix}
Taus == {1, TauDen}

\* np.sqrt on the perfect squares it is applied to
Isqrt(n) == CHOOSE r \in 0 .. n : r * r <= n /\ n < (r + 1) * (r + 1)

\* np.log(n) for n = 1 .. 64, in 1/Fix
LnTable ==
    << 0, 11, 18, 22, 26, 29, 31, 33, 35, 37, 38, 40, 41, 42, 43, 44,
       45, 46, 47, 48, 49, 49, 50, 51, 52, 52, 53, 53, 54, 54, 55, 55,
       56, 56, 57, 57, 58, 58, 59, 59, 59, 60, 60, 61, 61, 61, 62, 62,
       62, 63, 63, 63, 64, 64, 64, 64, 65, 65, 65, 66, 66, 66, 66, 67 >>

\* np.log(spot / strike)
LogRatio(spot_, strike_) == LnTable[spot_] - LnTable[strike_]

\* norm.cdf(d / Fix) for d = 0 .. 35, in 1/DeltaOne; DeltaOne beyond
CdfTable ==
    << 16, 17, 18, 18, 19, 20, 21, 21, 22, 23, 23, 24, 25, 25, 26, 26, 27, 27,
       28, 28, 29, 29, 29, 30, 30, 30, 30, 31, 31, 31, 31, 31, 31, 31, 31, 32 >>

NormCdf(d) ==
    LET a == IF d < 0 THEN -d ELSE d
        u == IF a + 1 > Len(CdfTable) THEN DeltaOne ELSE CdfTable[a + 1]
    IN  IF d < 0 THEN DeltaOne - u ELSE u

\* strike_delta.py:60-64
get_black_scholes_delta(strike_, spot_, sigma_, tau_) ==
    LET vol == (sigma_ * Isqrt(tau_)) \div Isqrt(TauDen)
        d1  == ((LogRatio(spot_, strike_)
                   + (tau_ * sigma_ * sigma_) \div (2 * TauDen * Fix)) * Fix) \div vol
    IN  NormCdf(d1)

\* strike_delta.py:24
FirstStrike(spot_, step_) == spot_ + (step_ - (spot_ % step_)) + step_

\* strike_delta.py:33
BracketsTarget(target_delta, prev, curr) == target_delta <= prev /\ target_delta >= curr

\* strike_delta.py:47-51
get_best_delta(prev, curr, target_delta) ==
    LET lower_bound == target_delta - curr
        upper_bound == prev - target_delta
    IN  IF lower_bound <= upper_bound THEN curr ELSE prev

\* strike_delta.py:54-57
get_best_strike(final_delta, prev, strike_, step_) ==
    IF final_delta # prev THEN strike_ ELSE strike_ - step_

\* strike_delta.py:31  the delta at the strike the loop stands at
CurrDelta == get_black_scholes_delta(strike, args.spot, args.sigma, args.tau)

\* the arbitrage state, at rest while a strike search runs
ArbIdle ==
    /\ pool = CHOOSE p \in Pools : p.reserves_risky = 0 /\ p.invariant = 0 /\ p.fee = 0
    /\ market_price = 1
    /\ calls = << >>
    /\ updates = 0

\* the call iterative_solution(delta, spot, sigma, tau, step), up to the loop
\* (strike_delta.py:24-28)
InitStrike ==
    /\ ArbIdle
    /\ args \in [delta : Deltas, spot : Spots, sigma : Sigmas, tau : Taus, step : Steps]
    /\ strike = FirstStrike(args.spot, args.step)
    /\ prev_delta = DeltaOne
    /\ curr_step = 0
    /\ pc = "loop"
    /\ returned = << >>
    /\ visited = {}

\* an iteration that finds the target between the two deltas and returns
\* (strike_delta.py:29-37)
LoopReturn ==
    /\ pc = "loop"
    /\ curr_step < max_steps
    /\ BracketsTarget(args.delta, prev_delta, CurrDelta)
    /\ LET final_delta  == get_best_delta(prev_delta, CurrDelta, args.delta)
           final_strike == get_best_strike(final_delta, prev_delta, strike, args.step)
       IN  returned' = [final_strike |-> final_strike, final_delta |-> final_delta,
                        curr_step |-> curr_step]
    /\ visited' = visited \cup {strike}
    /\ pc' = "returned"
    /\ UNCHANGED << args, strike, prev_delta, curr_step >>
    /\ UNCHANGED arbVars

\* an iteration that does not, and moves one step up (strike_delta.py:29-33, 39-42)
LoopAdvance ==
    /\ pc = "loop"
    /\ curr_step < max_steps
    /\ ~BracketsTarget(args.delta, prev_delta, CurrDelta)
    /\ strike' = strike + args.step
    /\ prev_delta' = CurrDelta
    /\ curr_step' = curr_step + 1
    /\ visited' = visited \cup {strike}
    /\ UNCHANGED << args, pc, returned >>
    /\ UNCHANGED arbVars

\* strike_delta.py:29, 44  raise Exception("Did not converge.")
DidNotConverge ==
    /\ pc = "loop"
    /\ curr_step >= max_steps
    /\ pc' = "raised"
    /\ UNCHANGED << args, strike, prev_delta, curr_step, returned, visited >>
    /\ UNCHANGED arbVars

NextStrike == LoopReturn \/ LoopAdvance \/ DidNotConverge

SpecStrike == InitStrike /\ [][NextStrike]_vars

\* the claim's side: the delta get_black_scholes_delta computes at a strike, for the
\* arguments of the call
ClaimDeltaAt(k) == get_black_scholes_delta(k, args.spot, args.sigma, args.tau)

\* spot rounded up to a multiple of step
ClaimRoundedUp ==
    CHOOSE b \in args.spot .. (args.spot + args.step - 1) : b % args.step = 0

\* the closer of the two deltas to the target, the current one on a tie
ClaimCloser(prev, curr, target_delta) ==
    IF (target_delta - curr) <= (prev - target_delta) THEN curr ELSE prev

\* C11: whenever iterative_solution returns, final_delta is the delta that
\* get_black_scholes_delta computes at final_strike; final_strike is one of the strikes
\* the loop visited, spot rounded up to a multiple of step plus a positive multiple of
\* step; and final_delta is the closer to the target of the previous and the current
\* delta, the current one on a tie; also on the first iteration, where prev_delta is 1
C11_ReturnedPairConsistent ==
    pc = "returned" =>
        /\ returned.final_delta = ClaimDeltaAt(returned.final_strike)
        /\ returned.final_strike \in visited
        /\ \E j \in 1 .. (max_steps + 2) :
               returned.final_strike = ClaimRoundedUp + j * args.step
        /\ returned.final_delta = ClaimCloser(prev_delta, ClaimDeltaAt(strike), args.delta)

====
